---- MODULE Spec2Model ----
(***************************************************************************)
(* Model of app.py: the paginated fetch of food-safety notices             *)
(* (fetch_food_data, memoised by st.cache_data), its normalisation         *)
(* (rename, sort, remove_html_tags, COUNTRY_MAPPING) and the page script   *)
(* that filters the table, aggregates it for the map and drills down into  *)
(* one country.                                                            *)
(*                                                                         *)
(* TLA+ identifiers and strings are ASCII, so the Korean names of the      *)
(* source are written in their romanised or English form:                  *)
(*   제품명 -> title          국가 -> country_local   구분 -> info_type    *)
(*   상세내용 -> content      등록일 -> registered_at 원문링크 -> source_url*)
(*   건수 -> count                                                         *)
(*   중국 Jungguk, 일본 Ilbon, 미국 Miguk, 한국 Hanguk,                    *)
(*   대한민국 Daehanminguk, 튀르키예 Turkiye, 터키 Teoki, ...              *)
(* A text is a sequence of one-character strings; a date string is a       *)
(* sequence of digits, compared lexicographically as Python compares       *)
(* strings.                                                                *)
(***************************************************************************)
EXTENDS Integers, Sequences, FiniteSets, TLC

VARIABLES
    now,              \* wall clock, in seconds
    cache,            \* st.cache_data store: key -> entry
    hist,             \* history: key -> the last result stored since the last reload
    pc,               \* position of the page script
    key,              \* <<start_date_input, end_date_input>> of the current run
    i,                \* loop index of fetch_food_data
    all_data,         \* items collected so far
    reqs,             \* history: params of the HTTP calls of this invocation
    resps,            \* history: the answer to each HTTP call of this invocation
    warning,          \* message this invocation passed to st.error, or NoWarning
    df,               \* the table fetch_food_data returned
    filter_type, filter_country, filtered_df,
    map_data, selected_country, country_data, metric, shown

vars == <<now, cache, hist, pc, key, i, all_data, reqs, resps, warning, df,
          filter_type, filter_country, filtered_df, map_data, selected_country,
          country_data, metric, shown>>

----------------------------------------------------------------------------
(* Bounds of the model *)

\* seconds the clock advances in one step of time
TickStep == 1800
\* the clock stops advancing here
MaxTime == 3600
\* the leading windows for which the API may answer a shorter page
ShortPages == 2

(* Program constants *)

\* @st.cache_data(ttl=3600)
TTL == 3600
\* batch_size = 100
batch_size == 100
\* for i in range(5)
MaxCalls == 5
\* country_data.head(5)
HeadRows == 5

----------------------------------------------------------------------------
(* Generic helpers *)

Min(S) == CHOOSE x \in S : \A y \in S : x <= y

\* the decimal digits of n, zero-padded to width w (most significant first)
RECURSIVE Digits(_, _)
Digits(n, w) == IF w = 0 THEN <<>> ELSE Digits(n \div 10, w - 1) \o <<n % 10>>

\* Python's str comparison a < b, on sequences of digits
RECURSIVE StrLess(_, _)
StrLess(a, b) ==
    IF b = <<>> THEN FALSE
    ELSE IF a = <<>> THEN TRUE
    ELSE IF Head(a) # Head(b) THEN Head(a) < Head(b)
    ELSE StrLess(Tail(a), Tail(b))

StartsWith(s, p) == Len(s) >= Len(p) /\ SubSeq(s, 1, Len(p)) = p

----------------------------------------------------------------------------
(* remove_html_tags *)

\* a missing value (None / NaN), as pandas hands it to remove_html_tags
NaN == <<"NaN">>

Whitespace == {" ", "\n", "\t", "\r"}

\* where a match of '<.*?>' starting at s[1] ends, or 0 when there is none:
\* the first '>' after s[1], unless a line break precedes it ('.' matches
\* every character but the line break)
MatchEnd(s) ==
    LET gts == {q \in 2..Len(s) : s[q] = ">"}
    IN  IF s = <<>> \/ s[1] # "<" \/ gts = {} THEN 0
        ELSE IF \E j \in 2..(Min(gts) - 1) : s[j] = "\n" THEN 0
        ELSE Min(gts)

\* re.sub(re.compile('<.*?>'), '', s)
RECURSIVE ReSubTags(_)
ReSubTags(s) ==
    IF s = <<>> THEN <<>>
    ELSE IF MatchEnd(s) > 0 THEN ReSubTags(SubSeq(s, MatchEnd(s) + 1, Len(s)))
    ELSE <<s[1]>> \o ReSubTags(Tail(s))

\* s.replace(old, new)
RECURSIVE Replace(_, _, _)
Replace(s, old, new) ==
    IF s = <<>> THEN <<>>
    ELSE IF StartsWith(s, old)
         THEN new \o Replace(SubSeq(s, Len(old) + 1, Len(s)), old, new)
    ELSE <<s[1]>> \o Replace(Tail(s), old, new)

\* s.strip()
RECURSIVE LStrip(_)
LStrip(s) == IF s # <<>> /\ s[1] \in Whitespace THEN LStrip(Tail(s)) ELSE s
RECURSIVE RStrip(_)
RStrip(s) == IF s # <<>> /\ s[Len(s)] \in Whitespace
             THEN RStrip(SubSeq(s, 1, Len(s) - 1)) ELSE s
Strip(s) == RStrip(LStrip(s))

Nbsp == <<"&", "n", "b", "s", "p", ";">>
Lt == <<"&", "l", "t", ";">>
Gt == <<"&", "g", "t", ";">>

remove_html_tags(text) ==
    IF text = NaN THEN <<>>
    ELSE Strip(Replace(Replace(Replace(ReSubTags(text),
                 Nbsp, <<" ">>), Lt, <<"<">>), Gt, <<">">>))

----------------------------------------------------------------------------
(* COUNTRY_MAPPING and the normalisation of fetch_food_data *)

COUNTRY_MAPPING ==
    [c \in {"Jungguk", "Ilbon", "Miguk", "Peurangseu", "Beteunam", "Dogil",
            "Itallia", "Yeongguk", "Kaenada", "Hoju", "Taeguk", "Indo",
            "Daehanminguk", "Hanguk", "Daeman", "Seupein", "Reosia",
            "Beurajil", "Indonesia", "Pillipin", "Nedeollandeu", "Belgie",
            "Turkiye", "Teoki"} |->
      CASE c = "Jungguk" -> "China"
        [] c = "Ilbon" -> "Japan"
        [] c = "Miguk" -> "United States"
        [] c = "Peurangseu" -> "France"
        [] c = "Beteunam" -> "Vietnam"
        [] c = "Dogil" -> "Germany"
        [] c = "Itallia" -> "Italy"
        [] c = "Yeongguk" -> "United Kingdom"
        [] c = "Kaenada" -> "Canada"
        [] c = "Hoju" -> "Australia"
        [] c = "Taeguk" -> "Thailand"
        [] c = "Indo" -> "India"
        [] c = "Daehanminguk" -> "South Korea"
        [] c = "Hanguk" -> "South Korea"
        [] c = "Daeman" -> "Taiwan"
        [] c = "Seupein" -> "Spain"
        [] c = "Reosia" -> "Russia"
        [] c = "Beurajil" -> "Brazil"
        [] c = "Indonesia" -> "Indonesia"
        [] c = "Pillipin" -> "Philippines"
        [] c = "Nedeollandeu" -> "Netherlands"
        [] c = "Belgie" -> "Belgium"
        [] c = "Turkiye" -> "Turkey"
        [] c = "Teoki" -> "Turkey"]

\* df['국가'].map(COUNTRY_MAPPING).fillna(df['국가']), for one value
MapCountry(c) == IF c \in DOMAIN COUNTRY_MAPPING THEN COUNTRY_MAPPING[c] ELSE c

\* the columns= argument of df.rename
RenameColumn(c) ==
    CASE c = "TITLE" -> "title"
      [] c = "COUNTRY" -> "country_local"
      [] c = "INFO_TYPE" -> "info_type"
      [] c = "CONTENT" -> "content"
      [] c = "REGISTRATION_DATE" -> "registered_at"
      [] c = "ORIGINAL_URL" -> "source_url"
      [] OTHER -> c

\* df.rename(columns=...), for one row
RenameRow(r) ==
    [c \in {RenameColumn(k) : k \in DOMAIN r} |->
        r[CHOOSE k \in DOMAIN r : RenameColumn(k) = c]]

Rename(rows) == [n \in 1..Len(rows) |-> RenameRow(rows[n])]

\* df.sort_values(by='등록일', ascending=False): rows with equal dates keep
\* their order
RECURSIVE InsertDesc(_, _)
InsertDesc(r, sorted) ==
    IF sorted = <<>> THEN <<r>>
    ELSE IF StrLess(Head(sorted).registered_at, r.registered_at)
         THEN <<r>> \o sorted
    ELSE <<Head(sorted)>> \o InsertDesc(r, Tail(sorted))

\* a sort that is left out
SortForgotten(rows) == rows

RECURSIVE SortDesc(_)
SortDesc(rows) ==
    IF rows = <<>> THEN <<>>
    ELSE InsertDesc(rows[Len(rows)], SortDesc(SubSeq(rows, 1, Len(rows) - 1)))

\* the columns of a table (none when it has no rows: pd.DataFrame())
Columns(rows) == IF rows = <<>> THEN {} ELSE DOMAIN rows[1]

\* df['상세내용'] = df['상세내용'].apply(remove_html_tags), when the column is there
CleanContent(rows) ==
    IF "content" \in Columns(rows)
    THEN [n \in 1..Len(rows) |->
            [rows[n] EXCEPT !["content"] = remove_html_tags(@)]]
    ELSE rows

\* df['Country_EN'] = ...
AddCountryEN(rows) ==
    [n \in 1..Len(rows) |->
        [c \in DOMAIN rows[n] \cup {"Country_EN"} |->
            IF c = "Country_EN" THEN MapCountry(rows[n]["country_local"])
            ELSE rows[n][c]]]

\* lines 87-108: what fetch_food_data returns when the loop ends normally
Normalize(items) ==
    IF items = <<>> THEN <<>>
    ELSE AddCountryEN(CleanContent(SortDesc(Rename(items))))

\* an except branch that drops what was collected
ExceptReturnNothing(items) == <<>>

\* line 112: what the except branch returns
ExceptReturn(items) == items

----------------------------------------------------------------------------
(* The remote API: what requests.get(API_URL, params) can answer *)

Item(title, country, type, content, date, url) ==
    [TITLE |-> title, COUNTRY |-> country, INFO_TYPE |-> type,
     CONTENT |-> content, REGISTRATION_DATE |-> Digits(date, 8),
     ORIGINAL_URL |-> url]

\* the date ranges the two date pickers are set to: the default one
\* (2024-12-31 minus 90 days .. 2024-12-31) and a shorter one
DateRanges == {<<<<2024, 10, 2>>, <<2024, 12, 31>>>>,
               <<<<2024, 12, 1>>, <<2024, 12, 31>>>>}

\* start_date.strftime("%Y%m%d")
Strftime(d) == Digits(d[1], 4) \o Digits(d[2], 2) \o Digits(d[3], 2)

\* the pages of notices the API holds for a date range (bgnde, endde)
RemotePages(bgnde, endde) ==
    IF bgnde = Digits(20241002, 8)
    THEN << << Item("t1", "Ilbon", "Recall",
                    <<"<", "b", "\n", ">", "x">>, 20241105, ""),
               Item("t2", "Hanguk", "Recall",
                    <<"&", "l", "t", ";", "b", "&", "g", "t", ";">>, 20241220, "u2") >>,
            << Item("t3", "Daehanminguk", "Recall", NaN, 20241105, "u3"),
               Item("t4", "Ilbon", "Info",
                    <<"<", "p", ">", "a", "<", "/", "p", ">">>, 20241231, "") >>,
            << Item("t1", "Ilbon", "Recall",
                    <<"<", "b", "\n", ">", "x">>, 20241105, ""),
               Item("t5", "Ilbon", "Info",
                    <<" ", "a", "&", "n", "b", "s", "p", ";">>, 20241010, "u5") >>,
            << Item("t6", "Ilbon", "Recall", <<"c">>, 20241201, "u6"),
               Item("t7", "Ilbon", "Recall", <<"<", "<", "i", ">", ">">>, 20241002, "") >>,
            << Item("t8", "Ilbon", "Info", <<"d", "<", "e">>, 20241115, "u8"),
               Item("t9", "Hanguk", "Info", <<>>, 20241120, "") >> >>
    ELSE << << Item("t10", "Atlantis", "Recall", <<"x", "<", "b", "r", ">">>, 20241210, ""),
               Item("t11", "Turkiye", "Recall", NaN, 20241215, "u11") >>,
            << Item("t12", "Teoki", "Recall", <<"&", "g", "t", ";">>, 20241212, "") >> >>

\* the non-empty ITEMS lists the API may answer for the n-th window: the page
\* it holds, or, for the first ShortPages windows, that page without its
\* first notice
PageChoices(pages, n) ==
    IF n \notin 1..Len(pages) THEN {}
    ELSE {pages[n]} \cup (IF n <= ShortPages THEN {Tail(pages[n])} \ {<<>>} ELSE {})

\* the failures of lines 73-75: requests.get raises, raise_for_status raises,
\* response.json() raises; each with the message str(e)
Failures == {"ConnectionError", "HTTPError", "JSONDecodeError"}

\* the JSON bodies: not an object, an object without ITEMS, an object whose
\* ITEMS is empty, an object with the page the indices ask for
Bodies(params) ==
    LET pages == RemotePages(params.bgnde, params.endde)
        n == params.endIndex \div batch_size
    IN  {[isdict |-> FALSE, keys |-> {}, ITEMS |-> <<>>],
         [isdict |-> TRUE, keys |-> {"MESSAGE"}, ITEMS |-> <<>>],
         [isdict |-> TRUE, keys |-> {"ITEMS"}, ITEMS |-> <<>>]}
        \cup {[isdict |-> TRUE, keys |-> {"ITEMS"}, ITEMS |-> p] :
                p \in PageChoices(pages, n)}

Responses(params) ==
    {[error |-> f, data |-> [isdict |-> FALSE, keys |-> {}, ITEMS |-> <<>>]] :
        f \in Failures}
    \cup {[error |-> "", data |-> b] : b \in Bodies(params)}

----------------------------------------------------------------------------
(* st.cache_data *)

NoEntry == [at |-> -1, val |-> <<>>]

\* the stored result is served while it is younger than ttl
CacheHit(c, k, t) == c[k].at >= 0 /\ t - c[k].at < TTL

CachePut(c, k, t, v) == [c EXCEPT ![k] = [at |-> t, val |-> v]]

\* a clear that drops only the entry of the run's own key
CacheClearOwnKey(c, k) == [c EXCEPT ![k] = NoEntry]

\* st.cache_data.clear(): k is the key of the run that pressed reload
CacheClear(c, k) == [x \in DOMAIN c |-> NoEntry]

----------------------------------------------------------------------------
(* fetch_food_data *)

NoWarning == ""

\* a window that starts one index early
ParamsFromZero(k, idx) ==
    [bgnde |-> Strftime(k[1]), endde |-> Strftime(k[2]),
     startIndex |-> idx * batch_size, endIndex |-> (idx + 1) * batch_size]

\* lines 65-71
Params(k, idx) ==
    [bgnde |-> Strftime(k[1]), endde |-> Strftime(k[2]),
     startIndex |-> (idx * batch_size) + 1, endIndex |-> (idx + 1) * batch_size]

\* line 77
StopsPaging(data) == ~data.isdict \/ "ITEMS" \notin data.keys \/ data.ITEMS = <<>>

\* whether the loop goes on after page idx was appended
LoopContinues(idx) == idx + 1 < MaxCalls

NoView ==
    /\ filter_type' = {}
    /\ filter_country' = {}
    /\ filtered_df' = <<>>
    /\ map_data' = {}
    /\ selected_country' = ""
    /\ country_data' = <<>>
    /\ metric' = <<>>
    /\ shown' = <<>>

ViewUnchanged ==
    UNCHANGED <<filter_type, filter_country, filtered_df, map_data,
                selected_country, country_data, metric, shown>>

\* fetch_food_data returns v: the decorator stores it under the key
Return(v) ==
    /\ df' = v
    /\ cache' = CachePut(cache, key, now, v)
    /\ hist' = [hist EXCEPT ![key] = [at |-> now, val |-> v]]
    /\ pc' = "fetched"

Init ==
    /\ now = 0
    /\ cache = [k \in DateRanges |-> NoEntry]
    /\ hist = [k \in DateRanges |-> NoEntry]
    /\ pc = "idle"
    /\ key \in DateRanges
    /\ i = 0
    /\ all_data = <<>>
    /\ reqs = <<>>
    /\ resps = <<>>
    /\ warning = NoWarning
    /\ df = <<>>
    /\ filter_type = {}
    /\ filter_country = {}
    /\ filtered_df = <<>>
    /\ map_data = {}
    /\ selected_country = ""
    /\ country_data = <<>>
    /\ metric = <<>>
    /\ shown = <<>>

\* One run of the page script, lines 117-136: dt seconds after the last one
\* the user has the date pickers at k and has or has not pressed the reload
\* button; the script clears the cache on a press and calls fetch_food_data,
\* which the decorator answers from the cache when it can.
RunStart(k, press, dt) ==
    /\ pc \in {"idle", "stopped", "rendered", "raised"}
    /\ now + dt <= MaxTime
    /\ now' = now + dt
    /\ key' = k
    /\ LET c == IF press THEN CacheClear(cache, k) ELSE cache
       IN  /\ hist' = IF press THEN [x \in DOMAIN hist |-> NoEntry] ELSE hist
           /\ cache' = c
           /\ IF CacheHit(c, k, now + dt)
              THEN /\ df' = c[k].val
                   /\ pc' = "fetched"
              ELSE /\ df' = <<>>
                   /\ pc' = "fetching"
    /\ i' = 0
    /\ all_data' = <<>>
    /\ reqs' = <<>>
    /\ resps' = <<>>
    /\ warning' = NoWarning
    /\ NoView

\* One pass of the loop body, lines 59-82, and what follows when the loop
\* ends there: the except branch (110-112) or the normalisation (84-108).
HttpCall ==
    /\ pc = "fetching"
    /\ i < MaxCalls
    /\ LET params == Params(key, i)
       IN  /\ reqs' = Append(reqs, params)
           /\ \E r \in Responses(params) :
                IF r.error # ""
                THEN /\ resps' = Append(resps, r)
                     /\ warning' = r.error
                     /\ Return(ExceptReturn(all_data))
                     /\ UNCHANGED <<i, all_data>>
                ELSE IF StopsPaging(r.data)
                THEN /\ resps' = Append(resps, r)
                     /\ Return(Normalize(all_data))
                     /\ UNCHANGED <<i, all_data, warning>>
                ELSE /\ resps' = Append(resps, r)
                     /\ all_data' = all_data \o r.data.ITEMS
                     /\ i' = i + 1
                     /\ IF LoopContinues(i)
                        THEN UNCHANGED <<df, cache, hist, pc>>
                        ELSE Return(Normalize(all_data \o r.data.ITEMS))
                     /\ UNCHANGED warning
    /\ UNCHANGED <<now, key>>
    /\ ViewUnchanged

\* time passes while the fetch waits on the network and in time.sleep
Tick ==
    /\ pc = "fetching"
    /\ now + TickStep <= MaxTime
    /\ now' = now + TickStep
    /\ UNCHANGED <<cache, hist, pc, key, i, all_data, reqs, resps, warning, df>>
    /\ ViewUnchanged

----------------------------------------------------------------------------
(* The presentation layer, lines 138-221 *)

\* df[col].unique(), as a set
Unique(rows, col) == {rows[n][col] : n \in 1..Len(rows)}

\* a filter that joins the two conditions with "or"
FilterRowsEither(rows, ft, fc) ==
    LET keep(r) == r["info_type"] \in ft \/ r["country_local"] \in fc
    IN  SelectSeq(rows, keep)

\* df[(df['구분'].isin(ft)) & (df['국가'].isin(fc))]
FilterRows(rows, ft, fc) ==
    LET keep(r) == r["info_type"] \in ft /\ r["country_local"] \in fc
    IN  SelectSeq(rows, keep)

\* an aggregation whose count ignores the local country name
GroupBySizeByPair(rows) ==
    LET group(r) == <<r["Country_EN"], r["country_local"], r["info_type"]>>
    IN  {[Country_EN |-> g[1], country_local |-> g[2], info_type |-> g[3],
          count |-> Cardinality({n \in 1..Len(rows) :
                        /\ rows[n]["Country_EN"] = g[1]
                        /\ rows[n]["info_type"] = g[3]})] :
            g \in {group(rows[n]) : n \in 1..Len(rows)}}

\* groupby(['Country_EN', '국가', '구분']).size().reset_index(name='건수'):
\* one row per group that occurs, with the number of its records
GroupBySize(rows) ==
    LET group(r) == <<r["Country_EN"], r["country_local"], r["info_type"]>>
    IN  {[Country_EN |-> g[1], country_local |-> g[2], info_type |-> g[3],
          count |-> Cardinality({n \in 1..Len(rows) : group(rows[n]) = g})] :
            g \in {group(rows[n]) : n \in 1..Len(rows)}}

\* filtered_df[filtered_df['국가'] == selected_country]
CountryRows(rows, c) ==
    LET keep(r) == r["country_local"] = c
    IN  SelectSeq(rows, keep)

\* country_data['등록일'].max()
MaxDate(rows) ==
    LET ds == Unique(rows, "registered_at")
    IN  CHOOSE d \in ds : \A e \in ds : ~StrLess(d, e)

\* country_data.head(5)
HeadOf(rows) == SubSeq(rows, 1, IF Len(rows) < HeadRows THEN Len(rows) ELSE HeadRows)

\* the columns the script reads from a non-empty table before the drill-down
\* (lines 154, 157, 166, 175)
ViewColumns == {"info_type", "country_local", "registered_at", "title",
                "content", "Country_EN"}

\* The rest of the script run, lines 138-221: the no-data notice and st.stop()
\* on an empty table; otherwise the filters (ft, fc: what the two multiselects
\* hold), the list, the map aggregation and the drill-down (sel: what the
\* selectbox holds).  Reading a column the table lacks raises KeyError.
PageRender ==
    /\ pc = "fetched"
    /\ IF df = <<>>
       THEN /\ pc' = "stopped"
            /\ ViewUnchanged
       ELSE IF ~(ViewColumns \subseteq Columns(df))
       THEN /\ pc' = "raised"
            /\ ViewUnchanged
       ELSE \E ft \in SUBSET Unique(df, "info_type"),
               fc \in SUBSET Unique(df, "country_local") :
              LET f == FilterRows(df, ft, fc)
                  available_countries == Unique(f, "country_local")
              IN  /\ filter_type' = ft
                  /\ filter_country' = fc
                  /\ filtered_df' = f
                  /\ map_data' = GroupBySize(f)
                  /\ IF available_countries = {}
                     THEN /\ selected_country' = ""
                          /\ country_data' = <<>>
                          /\ metric' = <<>>
                          /\ shown' = <<>>
                          /\ pc' = "rendered"
                     ELSE \E sel \in available_countries :
                            /\ selected_country' = sel
                            /\ country_data' = CountryRows(f, sel)
                            /\ metric' = MaxDate(CountryRows(f, sel))
                            /\ shown' = HeadOf(CountryRows(f, sel))
                            /\ pc' = IF "source_url" \in Columns(f)
                                     THEN "rendered" ELSE "raised"
    /\ UNCHANGED <<now, cache, hist, key, i, all_data, reqs, resps, warning, df>>

Next ==
    \/ \E k \in DateRanges, press \in BOOLEAN, dt \in {0, TickStep} :
          RunStart(k, press, dt)
    \/ HttpCall
    \/ Tick
    \/ PageRender

Spec == Init /\ [][Next]_vars

----------------------------------------------------------------------------
(* Properties *)

RECURSIVE Flatten(_)
Flatten(ss) == IF ss = <<>> THEN <<>> ELSE Head(ss) \o Flatten(Tail(ss))

\* the fetch of this run has returned
Returned == pc \in {"fetched", "stopped", "rendered", "raised"}

\* the answer is a failure of the call
Failed(r) == r.error # ""

\* the answer's body is no object, lacks ITEMS or has an empty ITEMS list
EmptyPage(r) ==
    ~Failed(r) /\ (~r.data.isdict \/ "ITEMS" \notin r.data.keys \/ r.data.ITEMS = <<>>)

FullPage(r) == ~Failed(r) /\ ~EmptyPage(r)

\* C1: the calls of one invocation are at most 5; the n-th of them (from 1)
\* asks for startIndex 100(n-1)+1 and endIndex 100n; every answer before the
\* last is a non-empty page, so nothing is asked after an empty page; the
\* invocation goes on while fewer than 5 non-empty pages came and returns
\* only after an empty page, a failure or the 5th call.
C1_Pagination ==
    /\ Len(reqs) <= 5
    /\ Len(resps) = Len(reqs)
    /\ \A n \in 1..Len(reqs) :
          /\ reqs[n].startIndex = 100 * (n - 1) + 1
          /\ reqs[n].endIndex = 100 * n
    /\ \A n \in 1..(Len(resps) - 1) : FullPage(resps[n])
    /\ pc = "fetching" =>
          /\ Len(reqs) < 5
          /\ \A n \in 1..Len(resps) : FullPage(resps[n])
    /\ (Returned /\ reqs # <<>> /\ FullPage(resps[Len(resps)])) => Len(reqs) = 5

\* three non-empty pages, then an empty one: four calls, six records
C1_Witness ==
    /\ pc = "fetched"
    /\ Len(reqs) = 4
    /\ \A n \in 1..3 : FullPage(resps[n])
    /\ EmptyPage(resps[4])
    /\ Len(df) = 6

\* C2: when the k-th call fails, it is the last call of the invocation, the
\* warning carries the error message, the fetch has returned, and the table
\* is the items of the pages 1..k-1 in their order of arrival.
C2_FailSoft ==
    \A k \in 1..5 :
        (Len(resps) >= k /\ Failed(resps[k])) =>
            /\ Len(reqs) = k
            /\ Returned
            /\ warning = resps[k].error
            /\ df = Flatten([n \in 1..(k - 1) |-> resps[n].data.ITEMS])

\* the second call fails: the table is the first page
C2_Witness ==
    /\ pc = "fetched"
    /\ Len(resps) = 2
    /\ Failed(resps[2])
    /\ df = resps[1].data.ITEMS
    /\ df # <<>>

\* a result for k was stored since the last reload, less than an hour ago
Fresh(k) == hist[k].at >= 0 /\ now - hist[k].at < 3600

\* C6: a fetch issues HTTP calls only when no result for its key was stored
\* less than an hour ago since the last reload, and then it always does;
\* otherwise it returns the stored result, whatever it was; after a reload
\* press no key has a stored result but the one the run itself fetched.
C6_Cache ==
    /\ pc = "fetching" => ~Fresh(key)
    /\ (Returned /\ reqs = <<>>) => (Fresh(key) /\ df = hist[key].val)
    /\ (Returned /\ reqs # <<>>) => (hist[key].at >= 0 /\ df = hist[key].val)
    /\ \A k \in DateRanges : (cache[k].at >= 0) <=> (hist[k].at >= 0)

\* a partial result stored after a failure is served again without a call
C6_Witness ==
    /\ pc = "fetched"
    /\ reqs = <<>>
    /\ df # <<>>
    /\ "TITLE" \in Columns(df)
    /\ now > hist[key].at

\* the table has the normalised columns
Normalized(rows) == rows # <<>> /\ (ViewColumns \cup {"source_url"}) \subseteq Columns(rows)

\* the items collected by this invocation: the non-empty pages, in order
Collected ==
    Flatten([n \in 1..Len(resps) |->
                IF FullPage(resps[n]) THEN resps[n].data.ITEMS ELSE <<>>])

\* how often the item occurs among the collected ones / its record in the table
TimesCollected(x) == Cardinality({n \in 1..Len(Collected) : Collected[n] = x})
TimesReturned(x) ==
    Cardinality({n \in 1..Len(df) :
        /\ df[n]["title"] = x.TITLE
        /\ df[n]["country_local"] = x.COUNTRY
        /\ df[n]["info_type"] = x.INFO_TYPE
        /\ df[n]["registered_at"] = x.REGISTRATION_DATE
        /\ df[n]["source_url"] = x.ORIGINAL_URL})

\* rows n and n+1 are in descending order of registered_at
Descending(rows) ==
    \A n \in 1..(Len(rows) - 1) :
        ~StrLess(rows[n]["registered_at"], rows[n + 1]["registered_at"])

\* C3: whatever way the fetch ended, the table it returned from its own HTTP
\* calls holds exactly the collected items, under the normalised names, in
\* descending order of registered_at.
C3_SortedComplete ==
    (Returned /\ reqs # <<>> /\ Collected # <<>>) =>
        /\ Normalized(df)
        /\ Len(df) = Len(Collected)
        /\ \A n \in 1..Len(Collected) :
              TimesReturned(Collected[n]) = TimesCollected(Collected[n])
        /\ Descending(df)

\* the text holds '<', later '>'
HasTag(s) == \E a \in 1..Len(s), b \in 1..Len(s) : a < b /\ s[a] = "<" /\ s[b] = ">"

HasEntity(s) ==
    \E a \in 1..Len(s) :
        \E e \in {Nbsp, Lt, Gt} : StartsWith(SubSeq(s, a, Len(s)), e)

\* C4: the content of every record of a normalised table (the output of
\* remove_html_tags) holds no '<' ... '>', none of the three entities and
\* no white space at either end, and is a text, never the missing value.
C4_CleanContent ==
    (Returned /\ Normalized(df)) =>
        \A n \in 1..Len(df) :
            LET s == df[n]["content"]
            IN  /\ s # NaN
                /\ ~HasTag(s)
                /\ ~HasEntity(s)
                /\ (s # <<>> => (s[1] \notin Whitespace /\ s[Len(s)] \notin Whitespace))

\* C5: a page run ends with the no-data notice exactly on an empty table and
\* with the views rendered on a non-empty one; it never raises.
C5_NoRaise ==
    /\ pc # "raised"
    /\ pc = "stopped" => df = <<>>
    /\ pc = "rendered" => df # <<>>

\* C7: in every non-empty table the fetch returned, each record has a
\* Country_EN: the mapping's English name when country_local is a key of
\* COUNTRY_MAPPING, country_local itself otherwise.
C7_CountryEN ==
    (Returned /\ df # <<>>) =>
        \A n \in 1..Len(df) :
            /\ {"Country_EN", "country_local"} \subseteq DOMAIN df[n]
            /\ df[n]["country_local"] \in DOMAIN COUNTRY_MAPPING
                  => df[n]["Country_EN"] = COUNTRY_MAPPING[df[n]["country_local"]]
            /\ df[n]["country_local"] \notin DOMAIN COUNTRY_MAPPING
                  => df[n]["Country_EN"] = df[n]["country_local"]

RECURSIVE SumCounts(_)
SumCounts(S) ==
    IF S = {} THEN 0
    ELSE LET m == CHOOSE x \in S : TRUE IN m.count + SumCounts(S \ {m})

\* the filtered records of an English country name and an info type
OfPair(en, type) ==
    {n \in 1..Len(filtered_df) :
        filtered_df[n]["Country_EN"] = en /\ filtered_df[n]["info_type"] = type}

\* the filtered records of a group (English name, local name, info type)
OfGroup(en, local, type) ==
    {n \in OfPair(en, type) : filtered_df[n]["country_local"] = local}

\* C8, as stated: the map has exactly one marker for each (country_en,
\* info_type) pair among the filtered records, its count is the number of
\* filtered records of the pair, and the counts add up to the number of
\* filtered records.
C8_OneMarkerPerPair ==
    pc = "rendered" =>
        /\ \A n \in 1..Len(filtered_df) :
              Cardinality({m \in map_data :
                  /\ m.Country_EN = filtered_df[n]["Country_EN"]
                  /\ m.info_type = filtered_df[n]["info_type"]}) = 1
        /\ \A m \in map_data :
              /\ m.count = Cardinality(OfPair(m.Country_EN, m.info_type))
              /\ m.count > 0
        /\ SumCounts(map_data) = Len(filtered_df)

\* C8, amended: the map has exactly one marker for each (country_en,
\* country_local, info_type) group among the filtered records, its count is
\* the number of filtered records of the group, and the counts add up to the
\* number of filtered records.
C8_OneMarkerPerGroup ==
    pc = "rendered" =>
        /\ \A n \in 1..Len(filtered_df) :
              Cardinality({m \in map_data :
                  /\ m.Country_EN = filtered_df[n]["Country_EN"]
                  /\ m.country_local = filtered_df[n]["country_local"]
                  /\ m.info_type = filtered_df[n]["info_type"]}) = 1
        /\ \A m \in map_data :
              /\ m.count = Cardinality(OfGroup(m.Country_EN, m.country_local, m.info_type))
              /\ m.count > 0
        /\ SumCounts(map_data) = Len(filtered_df)

\* two local names of one country, with the same info type, are both on the map
C8_Witness ==
    /\ pc = "rendered"
    /\ \E m1 \in map_data, m2 \in map_data :
          /\ m1.Country_EN = m2.Country_EN
          /\ m1.info_type = m2.info_type
          /\ m1.country_local # m2.country_local

\* C9: with n filtered records of the selected country, the drill-down lists
\* min(n, 5) of them, all of that country, in descending order of
\* registered_at; no record of the country left out is more recent than a
\* listed one; the summary shows the count n and, as most recent date, the
\* date of the first listed record.
C9_DrillDown ==
    (pc = "rendered" /\ selected_country # "") =>
        LET ofCountry == {n \in 1..Len(filtered_df) :
                            filtered_df[n]["country_local"] = selected_country}
            n == Cardinality(ofCountry)
        IN  /\ n > 0
            /\ Len(shown) = IF n < 5 THEN n ELSE 5
            /\ \A j \in 1..Len(shown) :
                  /\ shown[j]["country_local"] = selected_country
                  /\ \E r \in ofCountry : filtered_df[r] = shown[j]
            /\ Descending(shown)
            /\ \A r \in ofCountry :
                  \/ \E j \in 1..Len(shown) : shown[j] = filtered_df[r]
                  \/ \A j \in 1..Len(shown) :
                        ~StrLess(shown[j]["registered_at"],
                                 filtered_df[r]["registered_at"])
            /\ Len(country_data) = n
            /\ metric = shown[1]["registered_at"]

\* seven records of Ilbon (일본): five are listed
C9_Witness ==
    /\ pc = "rendered"
    /\ selected_country = "Ilbon"
    /\ Len(country_data) = 7
    /\ Len(shown) = 5

\* C10: the filtered view is the records of the table whose info_type is
\* selected and whose country_local is selected, in the table's order;
\* filtering it again changes nothing; with every value selected it is the
\* whole table, with nothing selected it is empty.
C10_Filter ==
    pc = "rendered" =>
        LET keep == {n \in 1..Len(df) :
                        /\ df[n]["info_type"] \in filter_type
                        /\ df[n]["country_local"] \in filter_country}
        IN  /\ Len(filtered_df) = Cardinality(keep)
            /\ \A n \in keep :
                  filtered_df[Cardinality({m \in keep : m <= n})] = df[n]
            /\ FilterRows(filtered_df, filter_type, filter_country) = filtered_df
            /\ (/\ filter_type = Unique(df, "info_type")
                /\ filter_country = Unique(df, "country_local")) => filtered_df = df
            /\ (filter_type = {} \/ filter_country = {}) => filtered_df = <<>>

\* a selection that keeps some records of a type and drops others of it
C10_Witness ==
    /\ pc = "rendered"
    /\ filtered_df # <<>>
    /\ \E n \in 1..Len(df) :
          /\ df[n]["info_type"] \in filter_type
          /\ df[n]["country_local"] \notin filter_country
    /\ \E n \in 1..Len(df) :
          /\ df[n]["info_type"] \notin filter_type
          /\ df[n]["country_local"] \in filter_country

====
